---------------------------- MODULE Spec2Model ----------------------------
(***************************************************************************)
(* Model of the footnote pipeline of function_app_roman.py:                *)
(*   detect_footnote_boundary -> extract_text_with_formatting (partition,  *)
(*   footnote parser, continuation resolver) -> replace_superscript_refs.  *)
(*                                                                         *)
(* Text is a sequence of one-character strings.  Coordinates are integers; *)
(* a boundary is kept in tenths of a unit (threshold * 10) so that the     *)
(* products with 0.2, 0.3, 0.4, 0.5, 0.6 and 0.8 stay exact.               *)
(***************************************************************************)
EXTENDS Integers, Sequences, FiniteSets, TLC

----------------------------------------------------------------------------
(* Characters, classes and Python string helpers                           *)

Digits == {"0", "1", "2", "3", "4", "5", "6", "7", "8", "9"}

\* \s of the re module, restricted to the characters that occur in a line
Whitespace == {" ", "\t"}

\* the class [ivxlcdmIVXLCDM]
RomanLetters ==
    {"i", "v", "x", "l", "c", "d", "m", "I", "V", "X", "L", "C", "D", "M"}

\* the class [\.\s]
Separators == {"."} \cup Whitespace

\* str.upper() on one character (letters of the model's alphabet)
UpperChar(c) ==
    CASE c = "i" -> "I" [] c = "v" -> "V" [] c = "x" -> "X" [] c = "l" -> "L"
      [] c = "c" -> "C" [] c = "d" -> "D" [] c = "m" -> "M" [] c = "a" -> "A"
      [] c = "b" -> "B" [] c = "n" -> "N" [] OTHER -> c

Upper(s) == [i \in 1..Len(s) |-> UpperChar(s[i])]

\* Unicode code point of a character: the order Python compares strings by
Ord(c) ==
    CASE c = "\t" -> 9 [] c = "\n" -> 10 [] c = " " -> 32 [] c = "." -> 46
      [] c = "0" -> 48 [] c = "1" -> 49 [] c = "2" -> 50 [] c = "3" -> 51
      [] c = "4" -> 52 [] c = "5" -> 53 [] c = "6" -> 54 [] c = "7" -> 55
      [] c = "8" -> 56 [] c = "9" -> 57 [] c = ":" -> 58
      [] c = "A" -> 65 [] c = "B" -> 66 [] c = "C" -> 67 [] c = "D" -> 68
      [] c = "F" -> 70 [] c = "I" -> 73 [] c = "L" -> 76 [] c = "M" -> 77
      [] c = "N" -> 78 [] c = "V" -> 86 [] c = "X" -> 88
      [] c = "[" -> 91 [] c = "]" -> 93
      [] c = "a" -> 97 [] c = "b" -> 98 [] c = "c" -> 99 [] c = "d" -> 100
      [] c = "e" -> 101 [] c = "i" -> 105 [] c = "l" -> 108 [] c = "m" -> 109
      [] c = "n" -> 110 [] c = "o" -> 111 [] c = "t" -> 116 [] c = "v" -> 118
      [] c = "x" -> 120

\* s < t in Python's string order (lexicographic on code points)
RECURSIVE StrLess(_, _)
StrLess(s, t) ==
    IF t = <<>> THEN FALSE
    ELSE IF s = <<>> THEN TRUE
    ELSE IF Ord(Head(s)) # Ord(Head(t)) THEN Ord(Head(s)) < Ord(Head(t))
    ELSE StrLess(Tail(s), Tail(t))

\* number of consecutive characters of class cls in s from position i on
RECURSIVE RunLen(_, _, _)
RunLen(s, i, cls) ==
    IF i > Len(s) \/ s[i] \notin cls THEN 0 ELSE 1 + RunLen(s, i + 1, cls)

\* number of consecutive characters of class cls at the end of s
RECURSIVE TailRunLen(_, _)
TailRunLen(s, cls) ==
    IF s = <<>> \/ s[Len(s)] \notin cls THEN 0
    ELSE 1 + TailRunLen(SubSeq(s, 1, Len(s) - 1), cls)

\* str.strip()
Strip(s) ==
    LET a == RunLen(s, 1, Whitespace)
        r == SubSeq(s, a + 1, Len(s))
    IN  SubSeq(r, 1, Len(r) - TailRunLen(r, Whitespace))

DigitVal(c) == Ord(c) - 48

\* int(s) for a string of decimal digits
RECURSIVE ParseInt(_)
ParseInt(s) ==
    IF s = <<>> THEN 0
    ELSE 10 * ParseInt(SubSeq(s, 1, Len(s) - 1)) + DigitVal(s[Len(s)])

\* re.match(r'^\d+$', s)
IsDigits(s) == s # <<>> /\ \A i \in 1..Len(s) : s[i] \in Digits

----------------------------------------------------------------------------
(* roman_to_int and is_roman_numeral                                       *)

RomanValue(c) ==
    CASE c = "I" -> 1 [] c = "V" -> 5 [] c = "X" -> 10 [] c = "L" -> 50
      [] c = "C" -> 100 [] c = "D" -> 500 [] c = "M" -> 1000

RECURSIVE RomanSum(_, _)
RomanSum(u, i) ==
    IF i > Len(u) THEN 0
    ELSE (IF i < Len(u) /\ RomanValue(u[i]) < RomanValue(u[i + 1])
          THEN 0 - RomanValue(u[i]) ELSE RomanValue(u[i]))
         + RomanSum(u, i + 1)

roman_to_int(s) == IF s = <<>> THEN 0 ELSE RomanSum(Upper(s), 1)

\* the words one decimal place may take: (nine|four|five?one{0,3})
PlaceWords(one, five, ten) ==
    {<<one, ten>>, <<one, five>>}
      \cup {<<>>, <<one>>, <<one, one>>, <<one, one, one>>}
      \cup {<<five>>, <<five, one>>, <<five, one, one>>,
            <<five, one, one, one>>}

\* M{0,4}
ThousandWords ==
    {<<>>, <<"M">>, <<"M", "M">>, <<"M", "M", "M">>, <<"M", "M", "M", "M">>}

\* ^M{0,4}(CM|CD|D?C{0,3})(XC|XL|L?X{0,3})(IX|IV|V?I{0,3})$
RomanPattern(u) ==
    \E a \in 0..Len(u) : \E b \in a..Len(u) : \E c \in b..Len(u) :
        /\ SubSeq(u, 1, a) \in ThousandWords
        /\ SubSeq(u, a + 1, b) \in PlaceWords("C", "D", "M")
        /\ SubSeq(u, b + 1, c) \in PlaceWords("X", "L", "C")
        /\ SubSeq(u, c + 1, Len(u)) \in PlaceWords("I", "V", "X")

is_roman_numeral(s) ==
    /\ s # <<>>
    /\ \A i \in 1..Len(s) : UpperChar(s[i]) \in {"I", "V", "X", "L", "C", "D", "M"}
    /\ RomanPattern(Upper(s))

----------------------------------------------------------------------------
(* The two initiating-line grammars of the footnote parser                 *)

\* re.match(r'^\s*(<cls>+)[\.\s]\s*(.+)$', line): leading whitespace, the
\* longest run of cls, one separator, then whitespace that backtracks far
\* enough to leave (.+) at least one character.
LineMatch(line, cls) ==
    LET w    == RunLen(line, 1, Whitespace)
        n    == RunLen(line, w + 1, cls)
        sep  == w + n + 1
        rest == SubSeq(line, sep + 1, Len(line))
        lead == RunLen(rest, 1, Whitespace)
        skip == IF lead < Len(rest) THEN lead ELSE Len(rest) - 1
    IN  IF n > 0 /\ sep <= Len(line) /\ line[sep] \in Separators
           /\ rest # <<>> /\ "\n" \notin {rest[i] : i \in 1..Len(rest)}
        THEN [ok |-> TRUE, g1 |-> SubSeq(line, w + 1, w + n),
              g2 |-> SubSeq(rest, skip + 1, Len(rest))]
        ELSE [ok |-> FALSE, g1 |-> <<>>, g2 |-> <<>>]

arabic_match(line) == LineMatch(line, Digits)

roman_match(line) == LineMatch(line, RomanLetters)

\* re.match(r'^\s*<cls>+[\.\s]', line_text), the boundary detector's test;
\* g1 is the numeral
PrefixMatch(line, cls) ==
    LET w   == RunLen(line, 1, Whitespace)
        n   == RunLen(line, w + 1, cls)
        sep == w + n + 1
    IN  [ok |-> n > 0 /\ sep <= Len(line) /\ line[sep] \in Separators,
         g1 |-> SubSeq(line, w + 1, w + n)]

----------------------------------------------------------------------------
(* detect_footnote_boundary                                                *)
(* A page is [height, width, drawings, lines]; a drawing is [type, rect]   *)
(* with rect = <<x0, y0, x1, y1>>; a line is [y, spans] (y = bbox[1]) and  *)
(* a span is [text, size, sup] (sup = bit 0 of the span's flags).  The     *)
(* lines are those of the text blocks (type 0), in reading order.          *)

Abs(x) == IF x < 0 THEN 0 - x ELSE x

Min2(a, b) == IF a < b THEN a ELSE b

Max2(a, b) == IF a > b THEN a ELSE b

SetMin(S) == CHOOSE m \in S : \A x \in S : m <= x

SetMax(S) == CHOOSE m \in S : \A x \in S : m >= x

RECURSIVE Concat(_)
Concat(ss) == IF ss = <<>> THEN <<>> ELSE Head(ss) \o Concat(Tail(ss))

\* "".join(span["text"] for span in line["spans"])
LineText(line) == Concat([i \in 1..Len(line.spans) |-> line.spans[i].text])

\* the (y, length) pairs of the drawn segments that are horizontal and
\* longer than 30% of the page width
horizontal_lines(page) ==
    LET isH(d) == /\ d.type = "l"
                  /\ Abs(d.rect[2] - d.rect[4]) < 2
                  /\ 10 * Abs(d.rect[1] - d.rect[3]) > 3 * page.width
        hs == SelectSeq(page.drawings, isH)
    IN  [i \in 1..Len(hs) |->
            [y   |-> Min2(hs[i].rect[2], hs[i].rect[4]),
             len |-> Max2(hs[i].rect[1], hs[i].rect[3])
                     - Min2(hs[i].rect[1], hs[i].rect[3])]]

\* the segments in the middle 60% of the page
separator_lines(page) ==
    LET inBand(l) == 10 * l.y < 8 * page.height /\ 10 * l.y > 2 * page.height
    IN  SelectSeq(horizontal_lines(page), inBand)

bottom_half_lines(page) ==
    LET low(l) == 10 * l.y > 5 * page.height
    IN  SelectSeq(separator_lines(page), low)

\* mutant: the lowest segment is taken, whatever its length
FirstMaxLen_Lowest(ls) ==
    ls[SetMin({i \in 1..Len(ls) :
                  ls[i].y = SetMax({ls[j].y : j \in 1..Len(ls)})})]

\* max(seq, key=...): the first element whose key is the largest
FirstMaxLen(ls) ==
    LET m == SetMax({ls[i].len : i \in 1..Len(ls)})
    IN  ls[SetMin({i \in 1..Len(ls) : ls[i].len = m})]

FirstMaxY(ls) == ls[SetMin({i \in 1..Len(ls) :
                               ls[i].y = SetMax({ls[j].y : j \in 1..Len(ls)})})]

\* y positions of the lines that start like a footnote, below 40% of the page
footnote_candidates(page) ==
    {page.lines[i].y : i \in
        {k \in 1..Len(page.lines) :
            LET t == LineText(page.lines[k])
                r == PrefixMatch(t, RomanLetters)
            IN  /\ \/ PrefixMatch(t, Digits).ok
                   \/ (r.ok /\ is_roman_numeral(r.g1))
                /\ 10 * page.lines[k].y > 4 * page.height}}

\* one [size, y] per span of the page
SpanYs(page) ==
    Concat([i \in 1..Len(page.lines) |->
              [j \in 1..Len(page.lines[i].spans) |->
                  [size |-> page.lines[i].spans[j].size,
                   y    |-> page.lines[i].y]]])

RECURSIVE SumY(_, _)
SumY(sy, size) ==
    IF sy = <<>> THEN 0
    ELSE (IF Head(sy).size = size THEN Head(sy).y ELSE 0) + SumY(Tail(sy), size)

RECURSIVE CountY(_, _)
CountY(sy, size) ==
    IF sy = <<>> THEN 0
    ELSE (IF Head(sy).size = size THEN 1 ELSE 0) + CountY(Tail(sy), size)

\* font_sizes.keys()
FontSizes(page) == {SpanYs(page)[i].size : i \in 1..Len(SpanYs(page))}

\* (avg s, s) < (avg t, t) as tuples, the averages compared exactly
AvgLess(sy, s, t) ==
    LET l == SumY(sy, s) * CountY(sy, t)
        r == SumY(sy, t) * CountY(sy, s)
    IN  l < r \/ (l = r /\ s < t)

\* sizes_by_pos[0][1]: the size whose mean line position is smallest
FirstSizeByPos(page) ==
    LET sy == SpanYs(page)
    IN  CHOOSE s \in FontSizes(page) :
            \A t \in FontSizes(page) \ {s} : AvgLess(sy, s, t)

\* mutant: the font-size step also fires when the page has one font size
FontStep_OneSize(page) ==
    LET sy == SpanYs(page)
        s  == FirstSizeByPos(page)
    IN  IF Cardinality(FontSizes(page)) >= 1
           /\ 2 * SumY(sy, s) > page.height * CountY(sy, s)
        THEN Max2(4 * page.height,
                  10 * (SetMin({sy[i].y : i \in {k \in 1..Len(sy) :
                                                   sy[k].size = s}}) - 5))
        ELSE -1

\* the value returned by the font-size step, or -1 when it decides nothing
FontStep(page) ==
    LET sy == SpanYs(page)
        s  == FirstSizeByPos(page)
    IN  IF Cardinality(FontSizes(page)) >= 2
           /\ 2 * SumY(sy, s) > page.height * CountY(sy, s)
        THEN Max2(4 * page.height,
                  10 * (SetMin({sy[i].y : i \in {k \in 1..Len(sy) :
                                                   sy[k].size = s}}) - 5))
        ELSE -1

\* mutant: the margin of the numeral step is put below the line, not above
detect_footnote_boundary_MarginBelow(page) ==
    IF separator_lines(page) # <<>>
    THEN IF bottom_half_lines(page) # <<>>
         THEN 10 * FirstMaxLen(bottom_half_lines(page)).y
         ELSE 10 * FirstMaxY(separator_lines(page)).y
    ELSE IF footnote_candidates(page) # {}
    THEN Max2(4 * page.height, 10 * (SetMin(footnote_candidates(page)) + 5))
    ELSE IF FontStep(page) # -1 THEN FontStep(page)
    ELSE 6 * page.height

\* the boundary, in tenths of a unit
detect_footnote_boundary(page) ==
    IF separator_lines(page) # <<>>
    THEN IF bottom_half_lines(page) # <<>>
         THEN 10 * FirstMaxLen(bottom_half_lines(page)).y
         ELSE 10 * FirstMaxY(separator_lines(page)).y
    ELSE IF footnote_candidates(page) # {}
    THEN Max2(4 * page.height, 10 * (SetMin(footnote_candidates(page)) - 5))
    ELSE IF FontStep(page) # -1 THEN FontStep(page)
    ELSE 6 * page.height

----------------------------------------------------------------------------
(* extract_text_with_formatting: partition of one page                     *)

\* mutant: the offset of a span within its line is not counted
RECURSIVE line_positions_NoOffset(_, _, _)
line_positions_NoOffset(spans, i, start_pos) ==
    IF i > Len(spans) THEN <<>>
    ELSE LET t == spans[i].text
             pos(kind) == [start |-> start_pos, end |-> start_pos + Len(t),
                           ref_text |-> t, type |-> kind]
         IN  (IF spans[i].sup /\ IsDigits(t) THEN <<pos("arabic")>>
              ELSE IF spans[i].sup /\ is_roman_numeral(t) THEN <<pos("roman")>>
              ELSE <<>>)
             \o line_positions_NoOffset(spans, i + 1, start_pos)

\* the markers of one line: (start, end, text, kind) of every superscript
\* span whose text is digits or a Roman numeral; i is the span looked at
RECURSIVE line_positions(_, _, _)
line_positions(spans, i, start_pos) ==
    IF i > Len(spans) THEN <<>>
    ELSE LET t == spans[i].text
             pos(kind) == [start |-> start_pos, end |-> start_pos + Len(t),
                           ref_text |-> t, type |-> kind]
         IN  (IF spans[i].sup /\ IsDigits(t) THEN <<pos("arabic")>>
              ELSE IF spans[i].sup /\ is_roman_numeral(t) THEN <<pos("roman")>>
              ELSE <<>>)
             \o line_positions(spans, i + 1, start_pos + Len(t))

\* the loop over the lines of a page from line i on, acc = [page_text,
\* page_superscripts, footnote_area_text] so far; thr is in tenths
RECURSIVE Partition(_, _, _, _, _)
Partition(lines, i, thr, pn, acc) ==
    IF i > Len(lines) THEN acc
    ELSE LET line == lines[i]
             txt  == LineText(line)
             lp   == line_positions(line.spans, 1, 0)
             base == Len(acc.page_text)
         IN  IF 10 * line.y > thr
             THEN Partition(lines, i + 1, thr, pn,
                    [acc EXCEPT !.footnote_area_text = Append(@, txt)])
             ELSE Partition(lines, i + 1, thr, pn,
                    [acc EXCEPT
                       !.page_superscripts = @ \o
                          [k \in 1..Len(lp) |->
                             [start    |-> base + lp[k].start,
                              end      |-> base + lp[k].end,
                              ref_text |-> lp[k].ref_text,
                              page_num |-> pn,
                              type     |-> lp[k].type]],
                       !.page_text = @ \o txt \o <<"\n">>])

----------------------------------------------------------------------------
(* extract_text_with_formatting: the footnote parser's cursor              *)
(* current_footnote_num is [t |-> "None"], [t |-> "int", v |-> n] or       *)
(* [t |-> "str", v |-> numeral]; a table is a function from its keys.      *)

\* mutant: the parser starts a page with footnote 1 open
NoneVal_Open == [t |-> "int", v |-> 1]

\* current_footnote_num = None
NoneVal == [t |-> "None", v |-> 0]

\* mutant: a key saved again takes the new text alone
Merge_Overwrite(d, k, text) ==
    IF k \in DOMAIN d THEN [d EXCEPT ![k] = text]
    ELSE d @@ (k :> text)

\* d[k] += " " + text if k in d else d[k] = text
Merge(d, k, text) ==
    IF k \in DOMAIN d THEN [d EXCEPT ![k] = @ \o <<" ">> \o text]
    ELSE d @@ (k :> text)

\* mutant: a Roman buffer is also saved in the Arabic table, under the
\* value of its numeral
SaveArabic_AnyKind(defs, num, type, text) ==
    IF num.t = "None" THEN defs
    ELSE IF type = "arabic" THEN Merge(defs, num.v, text)
    ELSE Merge(defs, roman_to_int(num.v), text)

\* "save the footnote being built": the Arabic table after the save
SaveArabic(defs, num, type, text) ==
    IF num.t # "None" /\ type = "arabic" THEN Merge(defs, num.v, text)
    ELSE defs

\* mutant: the buffer of a Roman footnote is not saved
SaveRoman_Dropped(rdefs, num, type, text) == rdefs

\* the Roman table after the save
SaveRoman(rdefs, num, type, text) ==
    IF num.t # "None" /\ type = "roman" THEN Merge(rdefs, num.v, text)
    ELSE rdefs

\* mutant: the continuation line is joined without the space
AppendLine_NoSpace(text, line) == text \o line

\* current_footnote_text += " " + line
AppendLine(text, line) == text \o <<" ">> \o line

\* which branch of the parser a footnote-region line takes
LineKind(line) ==
    IF arabic_match(line).ok THEN "arabic"
    ELSE IF roman_match(line).ok /\ is_roman_numeral(roman_match(line).g1)
    THEN "roman"
    ELSE "other"

----------------------------------------------------------------------------
(* Continuation resolver and reference substituter                         *)

\* mutant: the resolver leaves the entry as it was when its page was parsed
AppendOrphan_Dropped(entry, continuation_text) == entry

\* entry += " " + continuation_text.strip()
AppendOrphan(entry, continuation_text) ==
    entry \o <<" ">> \o Strip(continuation_text)

\* sorted(keys)[-1]: the greatest key in string order
last_roman(rdefs) ==
    CHOOSE k \in DOMAIN rdefs : \A j \in DOMAIN rdefs : j = k \/ StrLess(j, k)

\* mutant: the lowest Arabic key is taken
last_arabic_Lowest(defs) == SetMin(DOMAIN defs)

\* max(keys)
last_arabic(defs) == SetMax(DOMAIN defs)

\* mutant: the comparison is turned around, so the sort is ascending
KeyLess_Ascending(a, b) ==
    a.page_num < b.page_num \/ (a.page_num = b.page_num /\ a.start > b.start)

\* the key (page_num, start) of a marker, compared as a tuple
KeyLess(a, b) ==
    a.page_num < b.page_num \/ (a.page_num = b.page_num /\ a.start < b.start)

RECURSIVE InsertDesc(_, _)
InsertDesc(sorted, x) ==
    IF sorted = <<>> THEN <<x>>
    ELSE IF KeyLess(Head(sorted), x) THEN <<x>> \o sorted
    ELSE <<Head(sorted)>> \o InsertDesc(Tail(sorted), x)

\* list.sort(key=lambda x: (x[3], x[0]), reverse=True), a stable sort
RECURSIVE SortDesc(_)
SortDesc(sups) ==
    IF sups = <<>> THEN <<>>
    ELSE InsertDesc(SortDesc(SubSeq(sups, 1, Len(sups) - 1)), sups[Len(sups)])

\* mutant: the reference token is normalised to uppercase in the output
Replacement_Upper(ref_text, footnote_text) ==
    <<" ", "[", "F", "o", "o", "t", "n", "o", "t", "e", " ">>
      \o Upper(ref_text) \o <<":", " ">> \o footnote_text \o <<"]">>

\* f" [Footnote {ref_text}: {footnote_text}]"
Replacement(ref_text, footnote_text) ==
    <<" ", "[", "F", "o", "o", "t", "n", "o", "t", "e", " ">> \o ref_text
      \o <<":", " ">> \o footnote_text \o <<"]">>

\* page_text[:start] + replacement + page_text[end:]
Splice(text, start, end, replacement) ==
    SubSeq(text, 1, start) \o replacement \o SubSeq(text, end + 1, Len(text))

\* whether the marker's reference is found in the table of its kind
Resolves(m, defs, rdefs) ==
    IF m.type = "arabic" THEN ParseInt(m.ref_text) \in DOMAIN defs
    ELSE m.type = "roman" /\ m.ref_text \in DOMAIN rdefs

\* the footnote text the marker resolves to
Lookup(m, defs, rdefs) ==
    IF m.type = "arabic" THEN defs[ParseInt(m.ref_text)] ELSE rdefs[m.ref_text]

\* mutant: a reference that is not found is removed from the text
Substitute_MissDeletes(text, m, defs, rdefs) ==
    IF Resolves(m, defs, rdefs)
    THEN Splice(text, m.start, m.end,
                Replacement(m.ref_text, Lookup(m, defs, rdefs)))
    ELSE Splice(text, m.start, m.end, <<>>)

\* the body of the loop over one page's markers
Substitute(text, m, defs, rdefs) ==
    IF Resolves(m, defs, rdefs)
    THEN Splice(text, m.start, m.end,
                Replacement(m.ref_text, Lookup(m, defs, rdefs)))
    ELSE text

----------------------------------------------------------------------------
(* The documents explored                                                  *)

MaxPages == 2

MaxFootLines == 3

Span(text, sup) == [text |-> text, size |-> 10, sup |-> sup]

\* The footnote-region lines a document is made of, by kind of document:
\* "arabic" has Arabic numerals only (both separators) and two lines
\* without a numeral; "mixed" has an Arabic numeral, one Roman numeral in
\* both letter cases and a line without a numeral; "roman" has two Roman
\* numerals whose string order is not their order by value, and a line
\* that is a lone superscript digit.
Profiles == {"arabic", "mixed", "roman"}

FootLineSet(profile) ==
    IF profile = "arabic"
    THEN { <<"1", ".", " ", "A">>,
           <<"2", " ", "B">>,
           <<" ", "a", " ">>,
           <<"b">> }
    ELSE IF profile = "mixed"
    THEN { <<"1", ".", " ", "A">>,
           <<"i", "i", ".", " ", "C">>,
           <<"I", "I", ".", " ", "D">>,
           <<" ", "a", " ">> }
    ELSE { <<"V", ".", " ", "A">>,
           <<"I", "X", ".", " ", "B">>,
           <<"2">> }

RECURSIVE SeqsUpTo(_, _)
SeqsUpTo(S, n) ==
    IF n = 0 THEN {<<>>}
    ELSE LET shorter == SeqsUpTo(S, n - 1)
         IN  shorter \cup {Append(q, x) : q \in {r \in shorter : Len(r) = n - 1},
                                          x \in S}

\* the body of page number pn (from 0): two lines with superscript markers
BodyLines(pn) ==
    IF pn % 2 = 0
    THEN << [y |-> 10, spans |-> <<Span(<<"a">>, FALSE), Span(<<"1">>, TRUE),
                                   Span(<<"b">>, FALSE)>>],
            [y |-> 20, spans |-> <<Span(<<"i", "i">>, TRUE),
                                   Span(<<".">>, FALSE)>>] >>
    ELSE << [y |-> 10, spans |-> <<Span(<<"2">>, TRUE), Span(<<"n">>, TRUE),
                                   Span(<<"1">>, FALSE)>>],
            [y |-> 20, spans |-> <<Span(<<"I", "I">>, TRUE)>>] >>

\* a drawn rule between body and footnotes on the even pages only
Drawings(pn) ==
    IF pn % 2 = 0 THEN << [type |-> "l", rect |-> <<10, 65, 90, 65>>] >>
    ELSE <<>>

\* a page: the body lines, then the given lines below them, each of one
\* span; a line that is only digits is set as a superscript
MkPage(pn, foot) ==
    [height   |-> 100,
     width    |-> 100,
     drawings |-> Drawings(pn),
     lines    |-> BodyLines(pn) \o
                  [i \in 1..Len(foot) |->
                     [y |-> 65 + 5 * i,
                      spans |-> <<Span(foot[i], IsDigits(foot[i]))>>]]]

\* the footnote regions a page may have
FootSeqs(profile) == SeqsUpTo(FootLineSet(profile), MaxFootLines)

RECURSIVE FootCount(_)
FootCount(d) ==
    IF d = <<>> THEN 0
    ELSE Len(Head(d).lines) - Len(BodyLines(0)) + FootCount(Tail(d))

\* the pages the provider may yield as page pn after the pages d: a
\* document's footnote regions hold at most MaxFootLines lines in all
NextPages(d, pn, profile) ==
    {MkPage(pn, foot) :
        foot \in {f \in FootSeqs(profile) :
                    Len(f) + FootCount(d) <= MaxFootLines}}

----------------------------------------------------------------------------
(* The pipeline as a state machine                                         *)

VARIABLES
    doc_profile,                \* the kind of document (see Profiles)
    doc,                        \* the pages the layout provider has yielded
    num_pages,                  \* len(doc)
    pc,                         \* "page", "lines", "resolve", "replace", "done"
    page_num,                   \* index of the page being extracted, from 0
    footnote_y_threshold,       \* boundary of the page being extracted, tenths
    pages_text,
    all_superscripts,
    footnote_definitions,       \* Arabic table
    roman_footnote_definitions, \* Roman table
    footnote_continuations,     \* orphans, [page_num, text]
    footnote_area_text,         \* footnote-region lines of the current page
    line_idx,                   \* next line of footnote_area_text, from 1
    current_footnote_num,
    current_footnote_type,
    current_footnote_text,
    cont_idx,                   \* next orphan to resolve, from 1
    processed_pages,
    page_text,                  \* text of the page being substituted
    sup_idx,                    \* next marker to substitute, from 1
    input_folder,               \* os.listdir(input_folder)
    batch_pc,                   \* "idle", "start", "loop", "completed",
                                \* "returned", "crashed"
    pdf_files,
    file_idx,                   \* next file of pdf_files, from 1
    returned,                   \* [file, result] of each call made so far
    output_folder,              \* names of the files saved
    clean_text,                 \* function_app.py: the text handed over
    footnotes,                  \* function_app.py: the footnote table
    calls,                      \* function_app.py: calls made so far
    processed_text              \* function_app.py: the text last returned

vars == <<doc_profile, doc, num_pages, pc, page_num, footnote_y_threshold, pages_text,
          all_superscripts, footnote_definitions, roman_footnote_definitions,
          footnote_continuations, footnote_area_text, line_idx,
          current_footnote_num, current_footnote_type, current_footnote_text,
          cont_idx, processed_pages, page_text, sup_idx,
          input_folder, batch_pc, pdf_files, file_idx, returned,
          output_folder, clean_text, footnotes, calls, processed_text>>

\* the state of batch_process_pdfs
batch_vars == <<input_folder, batch_pc, pdf_files, file_idx, returned,
                output_folder>>

\* the state of function_app.py's replace_superscript_references
legacy_vars == <<clean_text, footnotes, calls, processed_text>>

EmptyTable == [k \in {} |-> <<>>]

InitState ==
    /\ pc = "page"
    /\ page_num = 0
    /\ footnote_y_threshold = 0
    /\ pages_text = <<>>
    /\ all_superscripts = <<>>
    /\ footnote_definitions = EmptyTable
    /\ roman_footnote_definitions = EmptyTable
    /\ footnote_continuations = <<>>
    /\ footnote_area_text = <<>>
    /\ line_idx = 1
    /\ current_footnote_num = NoneVal
    /\ current_footnote_type = "None"
    /\ current_footnote_text = <<>>
    /\ cont_idx = 1
    /\ processed_pages = <<>>
    /\ page_text = <<>>
    /\ sup_idx = 1

\* no batch is running
BatchIdle ==
    /\ input_folder = <<>>
    /\ batch_pc = "idle"
    /\ pdf_files = <<>>
    /\ file_idx = 1
    /\ returned = <<>>
    /\ output_folder = {}

\* function_app.py is not in use
LegacyIdle ==
    /\ clean_text = <<>>
    /\ footnotes = EmptyTable
    /\ calls = 0
    /\ processed_text = <<>>

Init ==
    /\ doc_profile \in Profiles
    /\ doc = <<>>
    /\ num_pages \in 1..MaxPages
    /\ InitState
    /\ BatchIdle
    /\ LegacyIdle

\* one page of the first pass up to the footnote parser: boundary, partition
ExtractPage ==
    /\ pc = "page"
    /\ UNCHANGED <<batch_vars, legacy_vars>>
    /\ \E page \in NextPages(doc, page_num, doc_profile) :
       LET thr  == detect_footnote_boundary(page)
           part == Partition(page.lines, 1, thr, page_num,
                             [page_text |-> <<>>, page_superscripts |-> <<>>,
                              footnote_area_text |-> <<>>])
       IN  /\ doc' = Append(doc, page)
           /\ footnote_y_threshold' = thr
           /\ pages_text' = Append(pages_text, part.page_text)
           /\ all_superscripts' = all_superscripts \o part.page_superscripts
           /\ footnote_area_text' = part.footnote_area_text
    /\ line_idx' = 1
    /\ current_footnote_num' = NoneVal
    /\ current_footnote_type' = "None"
    /\ current_footnote_text' = <<>>
    /\ pc' = "lines"
    /\ UNCHANGED <<doc_profile, num_pages, page_num, footnote_definitions,
                   roman_footnote_definitions, footnote_continuations,
                   cont_idx, processed_pages, page_text, sup_idx>>

\* one iteration of the loop over footnote_area_text
ParseLine ==
    /\ pc = "lines"
    /\ UNCHANGED <<batch_vars, legacy_vars>>
    /\ line_idx <= Len(footnote_area_text)
    /\ LET line == footnote_area_text[line_idx]
           kind == LineKind(line)
       IN  IF kind = "arabic" \/ kind = "roman"
           THEN /\ footnote_definitions' =
                      SaveArabic(footnote_definitions, current_footnote_num,
                                 current_footnote_type, current_footnote_text)
                /\ roman_footnote_definitions' =
                      SaveRoman(roman_footnote_definitions,
                                current_footnote_num, current_footnote_type,
                                current_footnote_text)
                /\ current_footnote_num' =
                      IF kind = "arabic"
                      THEN [t |-> "int", v |-> ParseInt(arabic_match(line).g1)]
                      ELSE [t |-> "str", v |-> roman_match(line).g1]
                /\ current_footnote_type' = kind
                /\ current_footnote_text' =
                      IF kind = "arabic" THEN arabic_match(line).g2
                      ELSE roman_match(line).g2
                /\ UNCHANGED footnote_continuations
           ELSE IF current_footnote_num.t # "None"
           THEN /\ current_footnote_text' =
                      AppendLine(current_footnote_text, line)
                /\ UNCHANGED <<footnote_definitions,
                               roman_footnote_definitions,
                               footnote_continuations, current_footnote_num,
                               current_footnote_type>>
           ELSE /\ footnote_continuations' =
                      Append(footnote_continuations,
                             [page_num |-> page_num, text |-> line])
                /\ UNCHANGED <<footnote_definitions,
                               roman_footnote_definitions,
                               current_footnote_num, current_footnote_type,
                               current_footnote_text>>
    /\ line_idx' = line_idx + 1
    /\ UNCHANGED <<doc_profile, doc, num_pages, pc, page_num, footnote_y_threshold, pages_text,
                   all_superscripts, footnote_area_text, cont_idx,
                   processed_pages, page_text, sup_idx>>

\* the end of a page: save the last footnote of the page, go to the next page
FlushPage ==
    /\ pc = "lines"
    /\ UNCHANGED <<batch_vars, legacy_vars>>
    /\ line_idx > Len(footnote_area_text)
    /\ footnote_definitions' =
          SaveArabic(footnote_definitions, current_footnote_num,
                     current_footnote_type, current_footnote_text)
    /\ roman_footnote_definitions' =
          SaveRoman(roman_footnote_definitions, current_footnote_num,
                    current_footnote_type, current_footnote_text)
    /\ page_num' = page_num + 1
    /\ pc' = IF page_num + 1 < num_pages THEN "page" ELSE "resolve"
    /\ UNCHANGED <<doc_profile, doc, num_pages, footnote_y_threshold, pages_text, all_superscripts,
                   footnote_continuations, footnote_area_text, line_idx,
                   current_footnote_num, current_footnote_type,
                   current_footnote_text, cont_idx, processed_pages,
                   page_text, sup_idx>>

\* second pass: one orphan
ResolveContinuation ==
    /\ pc = "resolve"
    /\ UNCHANGED <<batch_vars, legacy_vars>>
    /\ cont_idx <= Len(footnote_continuations)
    /\ LET continuation_text == footnote_continuations[cont_idx].text
       IN  IF DOMAIN roman_footnote_definitions # {}
           THEN /\ roman_footnote_definitions' =
                      [roman_footnote_definitions EXCEPT
                         ![last_roman(roman_footnote_definitions)] =
                            AppendOrphan(@, continuation_text)]
                /\ UNCHANGED footnote_definitions
           ELSE IF DOMAIN footnote_definitions # {}
           THEN /\ footnote_definitions' =
                      [footnote_definitions EXCEPT
                         ![last_arabic(footnote_definitions)] =
                            AppendOrphan(@, continuation_text)]
                /\ UNCHANGED roman_footnote_definitions
           ELSE UNCHANGED <<footnote_definitions, roman_footnote_definitions>>
    /\ cont_idx' = cont_idx + 1
    /\ UNCHANGED <<doc_profile, doc, num_pages, pc, page_num, footnote_y_threshold, pages_text,
                   all_superscripts, footnote_continuations,
                   footnote_area_text, line_idx, current_footnote_num,
                   current_footnote_type, current_footnote_text,
                   processed_pages, page_text, sup_idx>>

\* the start of replace_superscript_references: sort the markers, copy pages
StartReplace ==
    /\ pc = "resolve"
    /\ UNCHANGED <<batch_vars, legacy_vars>>
    /\ cont_idx > Len(footnote_continuations)
    /\ all_superscripts' = SortDesc(all_superscripts)
    /\ processed_pages' = pages_text
    /\ sup_idx' = 1
    /\ pc' = "replace"
    /\ UNCHANGED <<doc_profile, doc, num_pages, page_num, footnote_y_threshold, pages_text,
                   footnote_definitions, roman_footnote_definitions,
                   footnote_continuations, footnote_area_text, line_idx,
                   current_footnote_num, current_footnote_type,
                   current_footnote_text, cont_idx, page_text>>

\* whether marker i of the sorted list opens / closes its page's group
FirstOfPage(sups, i) == i = 1 \/ sups[i - 1].page_num # sups[i].page_num

LastOfPage(sups, i) == i = Len(sups) \/ sups[i + 1].page_num # sups[i].page_num

\* third pass: one marker; the page's text is read before its first marker
\* and written back after its last
ReplaceMarker ==
    /\ pc = "replace"
    /\ UNCHANGED <<batch_vars, legacy_vars>>
    /\ sup_idx <= Len(all_superscripts)
    /\ LET m    == all_superscripts[sup_idx]
           text == IF FirstOfPage(all_superscripts, sup_idx)
                   THEN processed_pages[m.page_num + 1] ELSE page_text
           new  == Substitute(text, m, footnote_definitions,
                              roman_footnote_definitions)
       IN  /\ page_text' = new
           /\ processed_pages' =
                 IF LastOfPage(all_superscripts, sup_idx)
                 THEN [processed_pages EXCEPT ![m.page_num + 1] = new]
                 ELSE processed_pages
    /\ sup_idx' = sup_idx + 1
    /\ UNCHANGED <<doc_profile, doc, num_pages, pc, page_num, footnote_y_threshold, pages_text,
                   all_superscripts, footnote_definitions,
                   roman_footnote_definitions, footnote_continuations,
                   footnote_area_text, line_idx, current_footnote_num,
                   current_footnote_type, current_footnote_text, cont_idx>>

\* return processed_pages
Return ==
    /\ pc = "replace"
    /\ UNCHANGED <<batch_vars, legacy_vars>>
    /\ sup_idx > Len(all_superscripts)
    /\ pc' = "done"
    /\ UNCHANGED <<doc_profile, doc, num_pages, page_num, footnote_y_threshold, pages_text,
                   all_superscripts, footnote_definitions,
                   roman_footnote_definitions, footnote_continuations,
                   footnote_area_text, line_idx, current_footnote_num,
                   current_footnote_type, current_footnote_text, cont_idx,
                   processed_pages, page_text, sup_idx>>

Next ==
    \/ ExtractPage
    \/ ParseLine
    \/ FlushPage
    \/ ResolveContinuation
    \/ StartReplace
    \/ ReplaceMarker
    \/ Return

Spec == Init /\ [][Next]_vars

----------------------------------------------------------------------------
(* detect_footnote_boundary on its own, over pages of varied geometry      *)

MaxGeomLines == 2

MaxGeomDrawings == 1

\* drawn segments: two rules in the lower half (the lower one longer,
\* slightly slanted, drawn right to left), one in the upper half, and one
\* of exactly 30% of the width, which is too short to count
GeomSegments ==
    { [type |-> "l", rect |-> <<10, 60, 60, 60>>],
      [type |-> "l", rect |-> <<90, 71, 10, 70>>],
      [type |-> "l", rect |-> <<20, 30, 80, 30>>],
      [type |-> "l", rect |-> <<10, 55, 40, 55>>] }

\* line contents: plain text in two font sizes, an Arabic and a Roman
\* initiating line
GeomSpans ==
    { <<[text |-> <<"a">>, size |-> 10, sup |-> FALSE]>>,
      <<[text |-> <<"b">>, size |-> 8, sup |-> FALSE]>>,
      <<[text |-> <<"1", ".", " ", "A">>, size |-> 8, sup |-> FALSE]>>,
      <<[text |-> <<"i", "v", " ", "b">>, size |-> 8, sup |-> FALSE]>> }

GeomLines == {[y |-> y, spans |-> sp] : y \in {30, 45, 70, 100}, sp \in GeomSpans}

GeomPages ==
    {[height |-> h, width |-> 100, drawings |-> d, lines |-> l] :
        h \in {60, 100},
        d \in SeqsUpTo(GeomSegments, MaxGeomDrawings),
        l \in SeqsUpTo(GeomLines, MaxGeomLines)}

InitBoundary ==
    /\ doc_profile = "geometry"
    /\ doc \in {<<p>> : p \in GeomPages}
    /\ num_pages = 1
    /\ InitState
    /\ BatchIdle
    /\ LegacyIdle

\* footnote_y_threshold = detect_footnote_boundary(page)
DetectBoundary ==
    /\ pc = "page"
    /\ UNCHANGED <<batch_vars, legacy_vars>>
    /\ footnote_y_threshold' = detect_footnote_boundary(doc[page_num + 1])
    /\ pc' = "detected"
    /\ UNCHANGED <<doc_profile, doc, num_pages, page_num, pages_text,
                   all_superscripts, footnote_definitions,
                   roman_footnote_definitions, footnote_continuations,
                   footnote_area_text, line_idx, current_footnote_num,
                   current_footnote_type, current_footnote_text, cont_idx,
                   processed_pages, page_text, sup_idx>>

NextBoundary == DetectBoundary

SpecBoundary == InitBoundary /\ [][NextBoundary]_vars

----------------------------------------------------------------------------
(* Vocabulary of the properties                                            *)

\* the footnote region of page i (from 1) of the document, as partitioned
RegionOf(i) ==
    Partition(doc[i].lines, 1, detect_footnote_boundary(doc[i]), i - 1,
              [page_text |-> <<>>, page_superscripts |-> <<>>,
               footnote_area_text |-> <<>>]).footnote_area_text

\* a line that matches the numeral-prefix grammar of either kind
IsInitiating(line) == LineKind(line) # "other"

\* the text after the numeral of an initiating line
Remainder(line) ==
    IF LineKind(line) = "arabic" THEN arabic_match(line).g2
    ELSE roman_match(line).g2

\* the key of an initiating line, tagged with its kind
KeyOf(line) ==
    IF LineKind(line) = "arabic"
    THEN [kind |-> "arabic", n |-> ParseInt(arabic_match(line).g1), s |-> <<>>]
    ELSE [kind |-> "roman", n |-> 0, s |-> roman_match(line).g1]

\* " " + line for each of the lines from..to of a region, in order
RECURSIVE JoinLines(_, _, _)
JoinLines(region, from, to) ==
    IF from > to THEN <<>>
    ELSE <<" ">> \o region[from] \o JoinLines(region, from + 1, to)

\* the orphans recorded for page pn (from 0), in the order recorded
OrphansOf(pn) ==
    LET sel == SelectSeq(footnote_continuations, LAMBDA c : c.page_num = pn)
    IN  [i \in 1..Len(sel) |-> sel[i].text]

\* the markers recorded for page pn (from 0)
MarkersOf(pn) ==
    {all_superscripts[i] : i \in {k \in 1..Len(all_superscripts) :
                                     all_superscripts[k].page_num = pn}}

----------------------------------------------------------------------------
(* C1: end to end, two pages                                               *)

\* page 1's body holds the Arabic marker "1", its footnote region is the one
\* initiating line of key 1, page 2's region is one line without a numeral
C1_Scenario ==
    /\ num_pages = 2 /\ Len(doc) = 2
    /\ \E m \in MarkersOf(0) : m.type = "arabic" /\ m.ref_text = <<"1">>
    /\ Len(RegionOf(1)) = 1
    /\ LineKind(RegionOf(1)[1]) = "arabic"
    /\ KeyOf(RegionOf(1)[1]).n = 1
    /\ Len(RegionOf(2)) = 1
    /\ ~IsInitiating(RegionOf(2)[1])

\* what C1 holds of a finished run whose key-1 entry should read full
C1_Outcome(full) ==
    /\ 1 \in DOMAIN footnote_definitions
    /\ footnote_definitions[1] = full
    /\ \A m \in MarkersOf(0) :
          (m.type = "arabic" /\ m.ref_text = <<"1">>) =>
             LET inl == <<" ", "[", "F", "o", "o", "t", "n", "o", "t", "e",
                          " ", "1", ":", " ">> \o full \o <<"]">>
             IN  /\ SubSeq(processed_pages[1], 1, m.start)
                      = SubSeq(pages_text[1], 1, m.start)
                 /\ SubSeq(processed_pages[1], m.start + 1,
                           m.start + Len(inl)) = inl

\* C1 as stated: in the two-page scenario the entry of key 1 is page 1's
\* text, one space, page 2's line as it stands, and " [Footnote 1: <that
\* text>]" is inlined at the marker's position on page 1.
C1_AsStated ==
    (pc = "done" /\ C1_Scenario) =>
        C1_Outcome(Remainder(RegionOf(1)[1]) \o <<" ">> \o RegionOf(2)[1])

\* C1 amended: the same, with page 2's line stripped of the whitespace at
\* its two ends before it is joined; the inlined text is that of the table
\* after the resolver, not that of the time page 1 was parsed.
C1_EndToEnd ==
    (pc = "done" /\ C1_Scenario) =>
        C1_Outcome(Remainder(RegionOf(1)[1]) \o <<" ">>
                   \o Strip(RegionOf(2)[1]))

\* a finished run of the scenario whose page-2 line had blanks around it
C1_Witness ==
    /\ pc = "done" /\ C1_Scenario
    /\ RegionOf(2)[1] = <<" ", "a", " ">>
    /\ footnote_definitions[1] = <<"A", " ", "a">>
    /\ processed_pages[1] # pages_text[1]

----------------------------------------------------------------------------
(* C2: the footnote parser within one page                                 *)

\* the initiating lines among the first k lines of a region
InitIdx(region, k) == {i \in 1..k : IsInitiating(region[i])}

\* the last line of the segment opened by initiating line j, k lines read
SegmentEnd(region, k, j) ==
    LET later == {i \in InitIdx(region, k) : i > j}
    IN  IF later = {} THEN k ELSE SetMin(later) - 1

\* the text owed to initiating line j: its remainder, then each following
\* line without a numeral, each after one space
SegmentText(region, k, j) ==
    Remainder(region[j]) \o JoinLines(region, j + 1, SegmentEnd(region, k, j))

\* the segments of the initiating lines js, in order, joined by one space
RECURSIVE JoinSegs(_, _, _)
JoinSegs(region, k, js) ==
    IF js = {} THEN <<>>
    ELSE LET j == SetMin(js)
         IN  SegmentText(region, k, j)
             \o (IF js = {j} THEN <<>>
                 ELSE <<" ">> \o JoinSegs(region, k, js \ {j}))

InTable(key) ==
    IF key.kind = "arabic" THEN key.n \in DOMAIN footnote_definitions
    ELSE key.s \in DOMAIN roman_footnote_definitions

TableText(key) ==
    IF key.kind = "arabic" THEN footnote_definitions[key.n]
    ELSE roman_footnote_definitions[key.s]

IsSuffix(t, u) == Len(u) <= Len(t) /\ SubSeq(t, Len(t) - Len(u) + 1, Len(t)) = u

CursorIs(key) ==
    /\ current_footnote_type = key.kind
    /\ current_footnote_num.t = (IF key.kind = "arabic" THEN "int" ELSE "str")
    /\ current_footnote_num.v = (IF key.kind = "arabic" THEN key.n ELSE key.s)

\* the saved segments of page pn, of which the first k lines are read and
\* the segments of the initiating lines in closed are saved: each key's
\* entry ends with its segments (and is exactly them on the first page)
SavedSegments(region, k, closed, pn) ==
    \A j \in closed :
        LET key  == KeyOf(region[j])
            mine == {i \in closed : KeyOf(region[i]) = key}
        IN  /\ InTable(key)
            /\ IsSuffix(TableText(key), JoinSegs(region, k, mine))
            /\ pn = 0 => TableText(key) = JoinSegs(region, k, mine)

\* the orphans of page pn are the lines before its first initiating line
OrphansBeforeFirst(region, k, pn) ==
    LET I == InitIdx(region, k)
    IN  OrphansOf(pn) = SubSeq(region, 1, IF I = {} THEN k ELSE SetMin(I) - 1)

\* no resolver step has been taken yet
Unresolved == pc \in {"page", "lines"} \/ (pc = "resolve" /\ cont_idx = 1)

\* C2: while a page's footnote region is parsed, and when it has been, a
\* line without a numeral that follows an initiating line of the page is in
\* the text of the nearest initiating line before it, after one space and in
\* order, and is no orphan; the page's orphans are exactly the lines before
\* its first initiating line.  ["1. A", "b", "2 B"] gives {1: "A b",
\* 2: "B"} and no orphan.
C2_InPageContinuation ==
    /\ pc = "lines" =>
         LET region == footnote_area_text
             k      == line_idx - 1
             I      == InitIdx(region, k)
         IN  /\ OrphansBeforeFirst(region, k, page_num)
             /\ I = {} => current_footnote_num.t = "None"
             /\ I # {} =>
                  /\ CursorIs(KeyOf(region[SetMax(I)]))
                  /\ current_footnote_text = SegmentText(region, k, SetMax(I))
                  /\ SavedSegments(region, k, I \ {SetMax(I)}, page_num)
    /\ (pc \in {"page", "resolve"} /\ page_num >= 1 /\ Unresolved) =>
         LET region == footnote_area_text
             k      == Len(region)
         IN  /\ OrphansBeforeFirst(region, k, page_num - 1)
             /\ SavedSegments(region, k, InitIdx(region, k), page_num - 1)
    /\ (pc \in {"page", "resolve"} /\ page_num = 1 /\ Unresolved
        /\ footnote_area_text
             = << <<"1", ".", " ", "A">>, <<"b">>, <<"2", " ", "B">> >>) =>
         /\ footnote_definitions = (1 :> <<"A", " ", "b">> @@ 2 :> <<"B">>)
         /\ DOMAIN roman_footnote_definitions = {}
         /\ footnote_continuations = <<>>

\* the first page's region ["1. A", "b", "2 B"] has been parsed
C2_Witness ==
    /\ pc = "resolve" /\ page_num = 1 /\ cont_idx = 1
    /\ footnote_area_text
         = << <<"1", ".", " ", "A">>, <<"b">>, <<"2", " ", "B">> >>
    /\ footnote_definitions[1] = <<"A", " ", "b">>

----------------------------------------------------------------------------
(* C3: the keys of the Roman table                                         *)

\* C3 as stated: every key of the Roman table is an uppercase numeral, so
\* that "ii." and "II." open the same entry; the first page's region
\* ["1. A", "ii. C"] gives {1: "A"} and {"II": "C"}.
C3_UppercaseKeys ==
    /\ \A k \in DOMAIN roman_footnote_definitions : k = Upper(k)
    /\ (pc \in {"page", "resolve"} /\ page_num = 1 /\ Unresolved
        /\ footnote_area_text
             = << <<"1", ".", " ", "A">>, <<"i", "i", ".", " ", "C">> >>) =>
         /\ footnote_definitions = (1 :> <<"A">>)
         /\ roman_footnote_definitions = (<<"I", "I">> :> <<"C">>)

----------------------------------------------------------------------------
(* C4: the two key spaces                                                  *)

\* g is f with at most the entry of key k added or changed
OnlyKeyChanged(f, g, k) ==
    /\ DOMAIN g = DOMAIN f \cup {k}
    /\ \A j \in DOMAIN f \ {k} : g[j] = f[j]

\* the text a marker step starts from
TextBefore ==
    IF FirstOfPage(all_superscripts, sup_idx)
    THEN processed_pages[all_superscripts[sup_idx].page_num + 1]
    ELSE page_text

C4_Step ==
    /\ current_footnote_type = "arabic" <=> current_footnote_num.t = "int"
    /\ current_footnote_type = "roman" <=> current_footnote_num.t = "str"
    /\ (pc = "lines" /\ line_idx <= Len(footnote_area_text)
        /\ IsInitiating(footnote_area_text[line_idx])) =>
          LET key == KeyOf(footnote_area_text[line_idx])
          IN  /\ current_footnote_type' = key.kind
              /\ current_footnote_num'.t
                   = (IF key.kind = "arabic" THEN "int" ELSE "str")
    /\ footnote_definitions' # footnote_definitions =>
          \/ /\ pc = "lines"
             /\ current_footnote_type = "arabic"
             /\ OnlyKeyChanged(footnote_definitions, footnote_definitions',
                               current_footnote_num.v)
             /\ roman_footnote_definitions' = roman_footnote_definitions
          \/ /\ pc = "resolve"
             /\ DOMAIN roman_footnote_definitions = {}
    /\ roman_footnote_definitions' # roman_footnote_definitions =>
          \/ /\ pc = "lines"
             /\ current_footnote_type = "roman"
             /\ OnlyKeyChanged(roman_footnote_definitions,
                               roman_footnote_definitions',
                               current_footnote_num.v)
             /\ footnote_definitions' = footnote_definitions
          \/ /\ pc = "resolve"
             /\ footnote_definitions' = footnote_definitions
    /\ (pc = "replace" /\ sup_idx <= Len(all_superscripts)) =>
          LET m == all_superscripts[sup_idx]
              n == ParseInt(m.ref_text)
          IN  /\ m.type \in {"arabic", "roman"}
              /\ m.type = "arabic" =>
                   page_text' =
                     IF n \in DOMAIN footnote_definitions
                     THEN Splice(TextBefore, m.start, m.end,
                                 Replacement(m.ref_text,
                                             footnote_definitions[n]))
                     ELSE TextBefore
              /\ m.type = "roman" =>
                   page_text' =
                     IF m.ref_text \in DOMAIN roman_footnote_definitions
                     THEN Splice(TextBefore, m.start, m.end,
                                 Replacement(m.ref_text,
                                    roman_footnote_definitions[m.ref_text]))
                     ELSE TextBefore

\* C4: on every step, the Arabic table changes only by the save of an
\* Arabic buffer under its integer key (or by the resolver when the Roman
\* table is empty), the Roman table only by the save of a Roman buffer under
\* its numeral (or by the resolver); an Arabic marker is substituted from
\* the Arabic table alone and a Roman marker from the Roman table alone.
C4_DisjointKeySpaces == [][C4_Step]_vars

\* a finished run where Arabic marker "2" found no entry although the Roman
\* table holds "II", and Arabic key 1 and Roman keys live side by side
C4_Witness ==
    /\ pc = "done" /\ Len(doc) = 2
    /\ DOMAIN footnote_definitions = {1}
    /\ <<"I", "I">> \in DOMAIN roman_footnote_definitions
    /\ \E m \in MarkersOf(1) :
          /\ m.type = "arabic" /\ m.ref_text = <<"2">>
          /\ SubSeq(processed_pages[2], m.start + 1, m.end) = <<"2">>

----------------------------------------------------------------------------
(* C5, C6, C7: the reference substituter                                   *)

\* the marker's reference has an entry in the table of the marker's kind
Hit(m) ==
    IF m.type = "arabic"
    THEN ParseInt(m.ref_text) \in DOMAIN footnote_definitions
    ELSE m.ref_text \in DOMAIN roman_footnote_definitions

\* the entry the marker's reference has
EntryOf(m) ==
    IF m.type = "arabic" THEN footnote_definitions[ParseInt(m.ref_text)]
    ELSE roman_footnote_definitions[m.ref_text]

\* " [Footnote <token>: <text>]"
Inline(token, text) ==
    <<" ", "[", "F", "o", "o", "t", "n", "o", "t", "e", " ">> \o token
      \o <<":", " ">> \o text \o <<"]">>

Prefix(t, n) == SubSeq(t, 1, n)

\* the text of page pn (from 0) as the substituter holds it now
CurText(pn) ==
    IF pc = "replace" /\ sup_idx > 1
       /\ all_superscripts[sup_idx - 1].page_num = pn
    THEN page_text
    ELSE processed_pages[pn + 1]

\* the markers of page pn already gone through / still to go through
Processed(pn) ==
    {all_superscripts[i] : i \in {k \in 1..(sup_idx - 1) :
                                     all_superscripts[k].page_num = pn}}

Pending(pn) ==
    {all_superscripts[i] : i \in {k \in sup_idx..Len(all_superscripts) :
                                     all_superscripts[k].page_num = pn}}

\* C5: at every step of the substitution, on every page, the text before
\* the start of each marker not yet gone through is that of the page before
\* substitution, and so is the text before the lowest marker replaced so far
\* (at the end: the lowest marker replaced on the page).
C5_OffsetSafety ==
    pc \in {"replace", "done"} =>
        \A pn \in 0..(Len(pages_text) - 1) :
            /\ \A m \in Pending(pn) :
                  Prefix(CurText(pn), m.start) = Prefix(pages_text[pn + 1], m.start)
            /\ LET replaced == {m \in Processed(pn) : Hit(m)}
               IN  replaced # {} =>
                     LET low == SetMin({m.start : m \in replaced})
                     IN  Prefix(CurText(pn), low) = Prefix(pages_text[pn + 1], low)

\* a page's higher marker has been replaced while a lower one is pending
C5_Witness ==
    /\ pc = "replace"
    /\ \E pn \in 0..(Len(pages_text) - 1) :
          /\ \E m \in Processed(pn) : Hit(m)
          /\ \E m \in Pending(pn) : Hit(m)
          /\ Len(CurText(pn)) > Len(pages_text[pn + 1])

\* the page text read from left to right: the text between the markers as
\* it was, each marker that is found replaced by the inline form built from
\* the token as it stands in the body, each marker not found left as it was
RECURSIVE Rebuild(_, _, _)
Rebuild(orig, ms, from) ==
    IF ms = {} THEN SubSeq(orig, from + 1, Len(orig))
    ELSE LET m == CHOOSE x \in ms : \A y \in ms : x.start <= y.start
         IN  SubSeq(orig, from + 1, m.start)
             \o (IF Hit(m)
                 THEN Inline(SubSeq(orig, m.start + 1, m.end), EntryOf(m))
                 ELSE SubSeq(orig, m.start + 1, m.end))
             \o Rebuild(orig, ms \ {m}, m.end)

\* C6: when the substituter is done, every page is its body text with
\* exactly the [start, end) slice of every resolved marker replaced by
\* " [Footnote <token as in the body>: <entry>]" and nothing else changed.
C6_InlineFormat ==
    pc = "done" =>
        \A pn \in 0..(Len(pages_text) - 1) :
            processed_pages[pn + 1]
              = Rebuild(pages_text[pn + 1], MarkersOf(pn), 0)

\* a finished run that inlined a lowercase Roman reference and an Arabic one
C6_Witness ==
    /\ pc = "done"
    /\ \E m \in MarkersOf(0) : m.ref_text = <<"i", "i">> /\ Hit(m)
    /\ \E m \in MarkersOf(0) : m.ref_text = <<"1">> /\ Hit(m)

\* by how much the replacements left of offset n on page pn moved the text
RECURSIVE ShiftOf(_, _)
ShiftOf(ms, n) ==
    IF ms = {} THEN 0
    ELSE LET m == CHOOSE x \in ms : TRUE
         IN  (IF Hit(m) /\ m.start < n
              THEN Len(Inline(m.ref_text, EntryOf(m))) - (m.end - m.start)
              ELSE 0)
             + ShiftOf(ms \ {m}, n)

\* C7: when the substituter is done it has gone through every marker; a
\* marker whose reference is not found still reads as its literal, where
\* the replacements to its left have moved it, and every marker that is
\* found has been replaced, whatever markers around it were not found.
C7_UnresolvedKept ==
    pc = "done" =>
        /\ sup_idx = Len(all_superscripts) + 1
        /\ \A pn \in 0..(Len(pages_text) - 1) : \A m \in MarkersOf(pn) :
              LET at  == m.start + ShiftOf(MarkersOf(pn), m.start)
                  now == processed_pages[pn + 1]
              IN  IF Hit(m)
                  THEN SubSeq(now, at + 1,
                              at + Len(Inline(m.ref_text, EntryOf(m))))
                         = Inline(m.ref_text, EntryOf(m))
                  ELSE SubSeq(now, at + 1, at + (m.end - m.start)) = m.ref_text

\* a finished run with a marker not found to the right and to the left of
\* markers that were found
C7_Witness ==
    /\ pc = "done"
    /\ \E pn \in 0..(Len(pages_text) - 1) :
          \E m \in MarkersOf(pn) : \E h \in MarkersOf(pn) :
              ~Hit(m) /\ Hit(h) /\ h.start < m.start
    /\ \E pn \in 0..(Len(pages_text) - 1) :
          \E m \in MarkersOf(pn) : \E h \in MarkersOf(pn) :
              ~Hit(m) /\ Hit(h) /\ m.start < h.start

----------------------------------------------------------------------------
(* C8, C9: the boundary detector                                           *)

\* the page the detector was given
ThePage == doc[1]

\* every text-line top and every end of a drawn segment is on the page
OnPage(page) ==
    /\ \A i \in 1..Len(page.lines) :
          0 <= page.lines[i].y /\ page.lines[i].y <= page.height
    /\ \A i \in 1..Len(page.drawings) :
          /\ 0 <= page.drawings[i].rect[2]
          /\ page.drawings[i].rect[2] <= page.height
          /\ 0 <= page.drawings[i].rect[4]
          /\ page.drawings[i].rect[4] <= page.height

\* C8: on a page whose line tops and drawn segments lie within
\* [0, height], the boundary returned is between 0 and the page height
\* (the threshold is kept in tenths of a unit).
C8_ThresholdOnPage ==
    (pc = "detected" /\ OnPage(ThePage)) =>
        0 <= footnote_y_threshold /\ footnote_y_threshold <= 10 * ThePage.height

\* a page within bounds decided by the numeral step from a line at the very
\* bottom of the page, where the margin above the line is what is returned
C8_Witness ==
    /\ pc = "detected"
    /\ OnPage(ThePage)
    /\ \E i \in 1..Len(ThePage.lines) : ThePage.lines[i].y = ThePage.height
    /\ footnote_y_threshold = 10 * (ThePage.height - 5)

\* a segment that is nearly level and wider than 30% of the page
IsRule(page, d) ==
    /\ d.type = "l"
    /\ Abs(d.rect[2] - d.rect[4]) < 2
    /\ 10 * Abs(d.rect[1] - d.rect[3]) > 3 * page.width

\* the line starts, after optional whitespace, with digits or with a Roman
\* numeral, followed by "." or whitespace
StartsWithNumeral(t) ==
    LET w == RunLen(t, 1, Whitespace)
        d == RunLen(t, w + 1, Digits)
        r == RunLen(t, w + 1, RomanLetters)
    IN  \/ d > 0 /\ w + d + 1 <= Len(t) /\ t[w + d + 1] \in Separators
        \/ /\ r > 0 /\ w + r + 1 <= Len(t) /\ t[w + r + 1] \in Separators
           /\ is_roman_numeral(SubSeq(t, w + 1, w + r))

\* no rule drawn, no line that starts with a numeral, one font size at most
Featureless(page) ==
    /\ \A i \in 1..Len(page.drawings) : ~IsRule(page, page.drawings[i])
    /\ \A i \in 1..Len(page.lines) : ~StartsWithNumeral(LineText(page.lines[i]))
    /\ Cardinality({page.lines[i].spans[j].size :
                      i \in 1..Len(page.lines), j \in {1}}) <= 1
    /\ \A i \in 1..Len(page.lines) : \A j \in 1..Len(page.lines[i].spans) :
          page.lines[i].spans[j].size = page.lines[i].spans[1].size

\* C9: for a page with no drawn rule, no line that starts with an Arabic or
\* Roman numeral followed by "." or whitespace, and one font size only, the
\* boundary returned is exactly 0.6 x the page height.
C9_DefaultBoundary ==
    (pc = "detected" /\ Featureless(ThePage)) =>
        footnote_y_threshold = 6 * ThePage.height

\* such a page whose only font size sits in the lower half of the page
C9_Witness ==
    /\ pc = "detected"
    /\ Featureless(ThePage)
    /\ Len(ThePage.lines) > 0
    /\ \A i \in 1..Len(ThePage.lines) : 2 * ThePage.lines[i].y > ThePage.height
    /\ footnote_y_threshold = 6 * ThePage.height

----------------------------------------------------------------------------
(* C10: the continuation resolver                                          *)

\* one step of the resolver, the text appended being what(orphan line)
ResolverStep(what(_)) ==
    (pc = "resolve" /\ cont_idx <= Len(footnote_continuations)) =>
        LET o == what(footnote_continuations[cont_idx].text)
        IN  /\ DOMAIN footnote_definitions' = DOMAIN footnote_definitions
            /\ DOMAIN roman_footnote_definitions'
                 = DOMAIN roman_footnote_definitions
            /\ IF DOMAIN roman_footnote_definitions # {}
               THEN /\ footnote_definitions' = footnote_definitions
                    /\ \E k \in DOMAIN roman_footnote_definitions :
                          roman_footnote_definitions' =
                            [roman_footnote_definitions EXCEPT
                               ![k] = @ \o <<" ">> \o o]
               ELSE /\ roman_footnote_definitions' = roman_footnote_definitions
                    /\ IF DOMAIN footnote_definitions # {}
                       THEN LET top == CHOOSE k \in DOMAIN footnote_definitions :
                                         \A j \in DOMAIN footnote_definitions :
                                            j <= k
                            IN  footnote_definitions' =
                                  [footnote_definitions EXCEPT
                                     ![top] = @ \o <<" ">> \o o]
                       ELSE footnote_definitions' = footnote_definitions

\* the orphans are recorded as the lines are met and resolved in that order
EncounterOrder ==
    /\ footnote_continuations' # footnote_continuations =>
          /\ pc = "lines" /\ line_idx <= Len(footnote_area_text)
          /\ footnote_continuations' =
                Append(footnote_continuations,
                       [page_num |-> page_num,
                        text |-> footnote_area_text[line_idx]])
          /\ line_idx' = line_idx + 1
    /\ \A i \in 1..Len(footnote_continuations) :
          \A j \in i..Len(footnote_continuations) :
             footnote_continuations[i].page_num
               <= footnote_continuations[j].page_num
    /\ (pc = "resolve" /\ cont_idx <= Len(footnote_continuations)) =>
          cont_idx' = cont_idx + 1
    /\ cont_idx' # cont_idx => pc = "resolve"

AsRecorded(t) == t

\* C10 as stated: the text of the orphan line itself is what is appended.
C10_AsStated == [][ResolverStep(AsRecorded) /\ EncounterOrder]_vars

\* C10: every step of the resolver appends a single space and the orphan
\* line with its leading and trailing whitespace removed; to a Roman entry,
\* no Arabic entry changing, when the Roman table is not empty; otherwise to
\* the Arabic entry with the highest key; the orphans are taken in the order
\* they were met (page ascending, then order within the page), and no step
\* of the resolver creates or deletes a key.
C10_ResolverTarget == [][ResolverStep(Strip) /\ EncounterOrder]_vars

\* the resolver is through with an orphan that has whitespace around it,
\* with entries in both tables, a Roman one having taken it
C10_Witness ==
    /\ pc = "resolve"
    /\ cont_idx = Len(footnote_continuations) + 1
    /\ \E i \in 1..Len(footnote_continuations) :
          Strip(footnote_continuations[i].text) # footnote_continuations[i].text
    /\ DOMAIN roman_footnote_definitions # {}
    /\ DOMAIN footnote_definitions # {}
    /\ \E k \in DOMAIN roman_footnote_definitions :
          IsSuffix(roman_footnote_definitions[k],
                   <<" ">> \o Strip(footnote_continuations[cont_idx - 1].text))

----------------------------------------------------------------------------
(* C11, C15: which entries an orphan may be attached to                    *)

\* an initiating line of key k (tagged) stands in the regions of the pages
\* 1..upto of the document
IntroducedBy(k, upto) ==
    \E q \in 1..upto : \E i \in 1..Len(RegionOf(q)) :
        IsInitiating(RegionOf(q)[i]) /\ KeyOf(RegionOf(q)[i]) = k

\* no initiating line stands in the regions of the pages 1..upto
NoneIntroduced(upto) ==
    \A q \in 1..upto : \A i \in 1..Len(RegionOf(q)) :
        ~IsInitiating(RegionOf(q)[i])

\* the resolver is about to take an orphan
TakingOrphan == pc = "resolve" /\ cont_idx <= Len(footnote_continuations)

\* C11 as stated: an orphan met when no initiating line stood on an earlier
\* page (none can stand before it on its own page) is dropped: the step of
\* the resolver that takes it changes no entry of either table, also when
\* initiating lines stand on later pages.
C11_AmbiguousDropped ==
    [][(TakingOrphan
        /\ NoneIntroduced(footnote_continuations[cont_idx].page_num)) =>
          /\ footnote_definitions' = footnote_definitions
          /\ roman_footnote_definitions' = roman_footnote_definitions]_vars

\* C15 as stated: the entry an orphan of page p is attached to was
\* introduced by an initiating line met before the orphan, that is on a
\* page before p; an entry first introduced on a later page is never the
\* target.
C15_SeenSoFar ==
    [][TakingOrphan =>
        LET before == footnote_continuations[cont_idx].page_num
        IN  /\ \A k \in DOMAIN footnote_definitions :
                 footnote_definitions'[k] # footnote_definitions[k] =>
                     IntroducedBy([kind |-> "arabic", n |-> k, s |-> <<>>],
                                  before)
            /\ \A k \in DOMAIN roman_footnote_definitions :
                 roman_footnote_definitions'[k]
                    # roman_footnote_definitions[k] =>
                     IntroducedBy([kind |-> "roman", n |-> 0, s |-> k],
                                  before)]_vars

----------------------------------------------------------------------------
(* process_pdf_to_rtf and batch_process_pdfs                               *)

MaxFiles == 3

\* str.lower() on one character (letters of the file names)
LowerChar(c) ==
    CASE c = "P" -> "p" [] c = "D" -> "d" [] c = "F" -> "f" [] c = "A" -> "a"
      [] c = "B" -> "b" [] c = "C" -> "c" [] OTHER -> c

Lower(s) == [i \in 1..Len(s) |-> LowerChar(s[i])]

\* f.lower().endswith('.pdf')
IsPdfName(f) ==
    /\ Len(f) >= 4
    /\ SubSeq(Lower(f), Len(f) - 3, Len(f)) = <<".", "p", "d", "f">>

\* os.path.splitext(f)[0]: f up to its last dot, unless only dots precede it
splitext_root(f) ==
    LET dots == {i \in 1..Len(f) : f[i] = "."}
        last == IF dots = {} THEN 0 ELSE SetMax(dots)
    IN  IF last > 0 /\ \E i \in 1..(last - 1) : f[i] # "."
        THEN SubSeq(f, 1, last - 1)
        ELSE f

\* f"{os.path.splitext(pdf_file)[0]}.rtf"
output_path(pdf_file) == splitext_root(pdf_file) \o <<".", "r", "t", "f">>

\* the step of process_pdf_to_rtf at which the document fails, if any
Failures == {"none", "open", "extract", "substitute", "write"}

\* mutant: a failure while writing is outside the try block
process_pdf_to_rtf_WriteUncaught(failure) ==
    [raised |-> failure = "write",
     value  |-> failure = "none"]

\* the whole body is in try/except Exception: True at the end of the try
\* block, False from the handler, nothing raised
process_pdf_to_rtf(failure) ==
    [raised |-> FALSE,
     value  |-> failure = "none"]

\* the names a folder may hold
FileNames ==
    { <<"a", ".", "p", "d", "f">>,
      <<"b", ".", "P", "D", "F">>,
      <<"a", ".", "b", ".", "p", "d", "f">>,
      <<"c", ".", "t", "x", "t">> }

\* os.listdir: every name once, in any order
Listings ==
    {l \in SeqsUpTo(FileNames, MaxFiles) :
        \A i \in 1..Len(l) : \A j \in 1..Len(l) : l[i] = l[j] => i = j}

pipeline_vars ==
    <<doc_profile, doc, num_pages, pc, page_num, footnote_y_threshold,
      pages_text, all_superscripts, footnote_definitions,
      roman_footnote_definitions, footnote_continuations, footnote_area_text,
      line_idx, current_footnote_num, current_footnote_type,
      current_footnote_text, cont_idx, processed_pages, page_text, sup_idx>>

InitBatch ==
    /\ doc_profile = "batch"
    /\ doc = <<>>
    /\ num_pages = 0
    /\ InitState
    /\ LegacyIdle
    /\ input_folder \in Listings
    /\ batch_pc = "start"
    /\ pdf_files = <<>>
    /\ file_idx = 1
    /\ returned = <<>>
    /\ output_folder = {}

\* the list of PDF files; the function returns at once when it is empty
ListFolder ==
    /\ batch_pc = "start"
    /\ pdf_files' = SelectSeq(input_folder, IsPdfName)
    /\ batch_pc' = IF pdf_files' = <<>> THEN "returned" ELSE "loop"
    /\ UNCHANGED <<input_folder, file_idx, returned, output_folder>>
    /\ UNCHANGED <<pipeline_vars, legacy_vars>>

\* one turn of the loop: process_pdf_to_rtf(input_path, output_path); an
\* exception that came out of it would end the loop
ProcessFile ==
    /\ batch_pc = "loop"
    /\ file_idx <= Len(pdf_files)
    /\ \E failure \in Failures :
          LET pdf_file == pdf_files[file_idx]
              r        == process_pdf_to_rtf(failure)
          IN  IF r.raised
              THEN /\ batch_pc' = "crashed"
                   /\ UNCHANGED <<file_idx, returned, output_folder>>
              ELSE /\ batch_pc' = "loop"
                   /\ file_idx' = file_idx + 1
                   /\ returned' = Append(returned, [file   |-> pdf_file,
                                                    result |-> r.value])
                   /\ output_folder' =
                        IF r.value
                        THEN output_folder \cup {output_path(pdf_file)}
                        ELSE output_folder
    /\ UNCHANGED <<input_folder, pdf_files>>
    /\ UNCHANGED <<pipeline_vars, legacy_vars>>

\* "Batch processing completed!"
BatchCompleted ==
    /\ batch_pc = "loop"
    /\ file_idx > Len(pdf_files)
    /\ batch_pc' = "completed"
    /\ UNCHANGED <<input_folder, pdf_files, file_idx, returned, output_folder>>
    /\ UNCHANGED <<pipeline_vars, legacy_vars>>

NextBatch ==
    \/ ListFolder
    \/ ProcessFile
    \/ BatchCompleted

SpecBatch == InitBatch /\ [][NextBatch]_vars

----------------------------------------------------------------------------
(* C12: the batch goes on after a failure                                  *)

\* the names of the folder that end in ".pdf" in any case, in folder order
PdfNamesOf(folder) ==
    SelectSeq(folder, LAMBDA f : Len(f) >= 4
                 /\ LowerChar(f[Len(f) - 3]) = "."
                 /\ LowerChar(f[Len(f) - 2]) = "p"
                 /\ LowerChar(f[Len(f) - 1]) = "d"
                 /\ LowerChar(f[Len(f)]) = "f")

\* the name without its four-character extension
BaseOf(f) == SubSeq(f, 1, Len(f) - 4)

\* C12: no call of process_pdf_to_rtf lets an exception out, a failure is
\* reported as the value False; so the batch never ends early: when it is
\* over it has attempted every PDF file of the folder exactly once, in
\* order, whichever of them failed, and every file that succeeded has an
\* output named after its base name.
C12_BatchContinues ==
    /\ batch_pc # "crashed"
    /\ Len(returned) = file_idx - 1
    /\ \A i \in 1..Len(returned) :
          /\ returned[i].file = PdfNamesOf(input_folder)[i]
          /\ returned[i].result \in BOOLEAN
          /\ returned[i].result =>
               BaseOf(returned[i].file) \o <<".", "r", "t", "f">>
                  \in output_folder
    /\ batch_pc \in {"completed", "returned"} =>
          Len(returned) = Len(PdfNamesOf(input_folder))

\* a batch that went to its end after its first file failed at writing (or
\* earlier) and a later one succeeded
C12_Witness ==
    /\ batch_pc = "completed"
    /\ Len(returned) >= 2
    /\ ~returned[1].result
    /\ returned[Len(returned)].result

----------------------------------------------------------------------------
(* function_app.py: replace_superscript_references(text, footnotes), the   *)
(* variant that finds the references by a regular expression               *)

MaxTextLen == 3

\* \w of the re module, over the characters of the texts
WordChars ==
    Digits \cup {"a", "b", "A", "B", "F", "o", "t", "n", "e", "_"}

\* str(n) for a natural number
RECURSIVE IntToStr(_)
IntToStr(n) ==
    LET d == CHOOSE c \in Digits : DigitVal(c) = n % 10
    IN  IF n < 10 THEN <<d>> ELSE Append(IntToStr(n \div 10), d)

\* replace_match: f" [Footnote {num}: {footnotes[num]}]" or the match itself
replace_match(group, fn) ==
    IF ParseInt(group) \in DOMAIN fn
    THEN <<" ", "[", "F", "o", "o", "t", "n", "o", "t", "e", " ">>
           \o IntToStr(ParseInt(group)) \o <<":", " ">>
           \o fn[ParseInt(group)] \o <<"]">>
    ELSE group

\* superscript_pattern.sub(replace_match, text) from position i on, for the
\* pattern (\d+)\b: a run of digits matches when no word character follows
\* it; a run followed by a letter matches nowhere, since \b fails between
\* two word characters
RECURSIVE legacy_sub(_, _, _)
legacy_sub(t, i, fn) ==
    IF i > Len(t) THEN <<>>
    ELSE IF t[i] \notin Digits THEN <<t[i]>> \o legacy_sub(t, i + 1, fn)
    ELSE LET n     == RunLen(t, i, Digits)
             group == SubSeq(t, i, i + n - 1)
         IN  IF i + n <= Len(t) /\ t[i + n] \in WordChars
             THEN group \o legacy_sub(t, i + n, fn)
             ELSE replace_match(group, fn) \o legacy_sub(t, i + n, fn)

\* the texts and tables handed to the function
LegacyTexts == SeqsUpTo({"1", "2", "a", " "}, MaxTextLen)

LegacyTables ==
    UNION {[S -> {<<"A">>, <<"2">>}] : S \in SUBSET {1, 2}}

InitLegacy ==
    /\ doc_profile = "legacy"
    /\ doc = <<>>
    /\ num_pages = 0
    /\ InitState
    /\ BatchIdle
    /\ clean_text \in LegacyTexts
    /\ footnotes \in LegacyTables
    /\ calls = 0
    /\ processed_text = <<>>

\* processed_text = replace_superscript_references(clean_text, footnotes)
LegacyReplace ==
    /\ calls = 0
    /\ processed_text' = legacy_sub(clean_text, 1, footnotes)
    /\ calls' = 1
    /\ UNCHANGED <<clean_text, footnotes>>
    /\ UNCHANGED <<pipeline_vars, batch_vars>>

\* the function is run again, on the text it returned
LegacyReplaceAgain ==
    /\ calls = 1
    /\ clean_text' = processed_text
    /\ processed_text' = legacy_sub(processed_text, 1, footnotes)
    /\ calls' = 2
    /\ UNCHANGED footnotes
    /\ UNCHANGED <<pipeline_vars, batch_vars>>

NextLegacy ==
    \/ LegacyReplace
    \/ LegacyReplaceAgain

SpecLegacy == InitLegacy /\ [][NextLegacy]_vars

----------------------------------------------------------------------------
(* C13: substitution is idempotent                                         *)

\* C13 as stated, for the substituter of function_app.py: the text is not
\* scanned for references, so a run on text that is already substituted
\* finds nothing more to replace and returns it as it is.
C13_Idempotent == calls = 2 => processed_text = clean_text

----------------------------------------------------------------------------
(* C14: where the entries of the tables come from                          *)

\* the footnote regions of the pages of the document
Regions == [q \in 1..Len(doc) |-> RegionOf(q)]

\* the initiating lines of key k in a region
LinesOf(k, region) ==
    {i \in 1..Len(region) : IsInitiating(region[i]) /\ KeyOf(region[i]) = k}

\* the number of initiating lines of key k in the regions q..Len(regions)
RECURSIVE CountLines(_, _, _)
CountLines(k, regions, q) ==
    IF q > Len(regions) THEN 0
    ELSE Cardinality(LinesOf(k, regions[q])) + CountLines(k, regions, q + 1)

\* the segments of every initiating line of key k in the regions
\* q..Len(regions), in document order, joined by one space
RECURSIVE MergedText(_, _, _)
MergedText(k, regions, q) ==
    IF q > Len(regions) THEN <<>>
    ELSE IF LinesOf(k, regions[q]) = {} THEN MergedText(k, regions, q + 1)
    ELSE JoinSegs(regions[q], Len(regions[q]), LinesOf(k, regions[q]))
         \o (IF CountLines(k, regions, q + 1) = 0 THEN <<>>
             ELSE <<" ">> \o MergedText(k, regions, q + 1))

\* the keys of both tables, tagged with their kind
TableKeys ==
    {[kind |-> "arabic", n |-> k, s |-> <<>>] : k \in DOMAIN footnote_definitions}
    \cup {[kind |-> "roman", n |-> 0, s |-> k] :
             k \in DOMAIN roman_footnote_definitions}

IsPrefix(t, u) == Len(u) <= Len(t) /\ SubSeq(t, 1, Len(u)) = u

\* C14 as stated: when the last page has been read, and when the resolver
\* is through, every key of the tables was introduced by exactly one
\* initiating line in the whole document.
C14_AsStated ==
    pc = "resolve" =>
        LET regions == Regions
        IN  \A k \in TableKeys : CountLines(k, regions, 1) = 1

\* C14: when the last page has been read, and when the resolver is through,
\* every key of the tables was introduced by at least one initiating line
\* of the document, and a key that several initiating lines carry has one
\* entry, which holds the text of each of them with its continuation lines,
\* in document order, joined by single spaces; the resolver only appends to
\* that text.
C14_KeysIntroduced ==
    pc = "resolve" =>
        LET regions == Regions
        IN  \A k \in TableKeys :
                /\ CountLines(k, regions, 1) >= 1
                /\ IsPrefix(TableText(k), MergedText(k, regions, 1))
                /\ cont_idx = 1 => TableText(k) = MergedText(k, regions, 1)

\* the last page has been read and a key was introduced by initiating lines
\* on both pages of the document
C14_Witness ==
    /\ pc = "resolve"
    /\ cont_idx = 1
    /\ Len(doc) = 2
    /\ \E k \in TableKeys :
          /\ LinesOf(k, RegionOf(1)) # {}
          /\ LinesOf(k, RegionOf(2)) # {}

----------------------------------------------------------------------------
(* C16: the Roman entry the resolver selects                               *)

\* C16 as stated: when the Roman table is not empty, the entry the resolver
\* appends an orphan to is the one whose key has the greatest numeral value
\* (with "V" and "IX" present, the entry of "IX").
C16_HighestByValue ==
    [][(TakingOrphan /\ DOMAIN roman_footnote_definitions # {}) =>
          \A k \in DOMAIN roman_footnote_definitions :
              roman_footnote_definitions'[k] # roman_footnote_definitions[k] =>
                  \A j \in DOMAIN roman_footnote_definitions :
                      roman_to_int(j) <= roman_to_int(k)]_vars

----------------------------------------------------------------------------
(* C17: the font-size step of the boundary detector                        *)

\* the line tops of the spans of the page set in the given size
TopsOfSize(page, size) ==
    {page.lines[i].y : i \in {k \in 1..Len(page.lines) :
        \E j \in 1..Len(page.lines[k].spans) :
            page.lines[k].spans[j].size = size}}

\* C17 as stated: when neither a rule nor a numeral line decided, the page
\* has two font sizes or more, and the mean line top of the spans in the
\* numerically smallest size is below the middle of the page, the boundary
\* is max(0.4 x height, topmost line top of that size - 5).
C17_SmallestFont ==
    LET page  == ThePage
        sizes == FontSizes(page)
        small == SetMin(sizes)
    IN  (/\ pc = "detected"
         /\ separator_lines(page) = <<>>
         /\ footnote_candidates(page) = {}
         /\ Cardinality(sizes) >= 2
         /\ 2 * SumY(SpanYs(page), small)
              > page.height * CountY(SpanYs(page), small)) =>
            footnote_y_threshold
              = Max2(4 * page.height,
                     10 * (SetMin(TopsOfSize(page, small)) - 5))

----------------------------------------------------------------------------
(* detect_footnote_boundary on pages with several drawings                 *)

MaxRules == 2

\* the drawings of GeomSegments, a long rule above the others of the lower
\* half, a rule on the 80% line of a page of height 100, a segment that
\* rises by 2 units, and a rectangle
RuleSegments ==
    GeomSegments \cup
    { [type |-> "l", rect |-> <<5, 55, 95, 55>>],
      [type |-> "l", rect |-> <<10, 80, 90, 80>>],
      [type |-> "l", rect |-> <<10, 60, 90, 62>>],
      [type |-> "re", rect |-> <<10, 60, 90, 60>>] }

RulePages ==
    {[height |-> h, width |-> 100, drawings |-> d, lines |-> l] :
        h \in {60, 100},
        d \in SeqsUpTo(RuleSegments, MaxRules),
        l \in SeqsUpTo(GeomLines, 1)}

InitRules ==
    /\ doc_profile = "rules"
    /\ doc \in {<<p>> : p \in RulePages}
    /\ num_pages = 1
    /\ InitState
    /\ BatchIdle
    /\ LegacyIdle

SpecRules == InitRules /\ [][NextBoundary]_vars

----------------------------------------------------------------------------
(* C18: the rule-line step of the boundary detector                        *)

\* y and length of a drawn segment
SegY(d) == IF d.rect[2] < d.rect[4] THEN d.rect[2] ELSE d.rect[4]

SegLen(d) ==
    IF d.rect[1] < d.rect[3] THEN d.rect[3] - d.rect[1]
    ELSE d.rect[1] - d.rect[3]

\* the drawings of the page that qualify as a separator: level segments
\* wider than 30% of the page, strictly between 20% and 80% of its height
Qualifying(page) ==
    {i \in 1..Len(page.drawings) :
        /\ IsRule(page, page.drawings[i])
        /\ 10 * SegY(page.drawings[i]) > 2 * page.height
        /\ 10 * SegY(page.drawings[i]) < 8 * page.height}

\* those of them in the lower half of the page
LowerHalf(page) ==
    {i \in Qualifying(page) : 2 * SegY(page.drawings[i]) > page.height}

----------------------------------------------------------------------------
(* C19: the parser keeps nothing open from one page to the next            *)

\* the key the cursor holds, tagged with its kind
CursorKey ==
    IF current_footnote_num.t = "int"
    THEN [kind |-> "arabic", n |-> current_footnote_num.v, s |-> <<>>]
    ELSE [kind |-> "roman", n |-> 0, s |-> current_footnote_num.v]

C19_Step ==
    /\ (pc = "page" /\ page_num >= 1 /\ current_footnote_num.t # "None") =>
          /\ InTable(CursorKey)
          /\ IsSuffix(TableText(CursorKey), current_footnote_text)
    /\ pc = "page" =>
          /\ line_idx' = 1
          /\ current_footnote_num'.t = "None"
          /\ current_footnote_type' = "None"
          /\ current_footnote_text' = <<>>
    /\ (/\ pc = "lines" /\ line_idx = 1
        /\ footnote_area_text # <<>>
        /\ ~IsInitiating(footnote_area_text[1])) =>
          /\ footnote_continuations' =
                Append(footnote_continuations,
                       [page_num |-> page_num, text |-> footnote_area_text[1]])
          /\ footnote_definitions' = footnote_definitions
          /\ roman_footnote_definitions' = roman_footnote_definitions
          /\ current_footnote_num'.t = "None"
          /\ current_footnote_text' = <<>>

\* C19: what was open at the end of a page is in the table before the next
\* page is read; the parser starts every page's footnote region with no
\* footnote open; so a non-initiating line at the top of a region is
\* recorded as an orphan (page index, text) and changes no entry.
C19_NoOpenAcrossPages == [][C19_Step]_vars

\* the first line of the second page's region has been recorded as an
\* orphan although the first page ended with a footnote open
C19_Witness ==
    /\ pc = "lines" /\ page_num = 1 /\ line_idx = 2
    /\ footnote_continuations # <<>>
    /\ footnote_continuations[Len(footnote_continuations)]
         = [page_num |-> 1, text |-> footnote_area_text[1]]
    /\ current_footnote_num.t = "None"
    /\ \E i \in 1..Len(RegionOf(1)) : IsInitiating(RegionOf(1)[i])

----------------------------------------------------------------------------
(* C20: the markers of the first pass                                      *)

\* a superscript span whose text is digits or a Roman numeral
NumeralSup(span) ==
    span.sup /\ (IsDigits(span.text) \/ is_roman_numeral(span.text))

\* the number of such spans on the lines of the page among lines[i..] that
\* are body lines (below: footnote-region lines) for the boundary thr
RECURSIVE CountSup(_, _, _, _)
CountSup(lines, i, thr, below) ==
    IF i > Len(lines) THEN 0
    ELSE (IF (10 * lines[i].y > thr) = below
          THEN Cardinality({j \in 1..Len(lines[i].spans) :
                               NumeralSup(lines[i].spans[j])})
          ELSE 0)
         + CountSup(lines, i + 1, thr, below)

\* every marker names a slice of its page's body text that reads as its
\* literal, and the markers of one page do not overlap
MarkersValid ==
    /\ \A i \in 1..Len(all_superscripts) :
          LET m == all_superscripts[i]
          IN  /\ m.page_num + 1 \in 1..Len(pages_text)
              /\ 0 <= m.start /\ m.start < m.end
              /\ m.end <= Len(pages_text[m.page_num + 1])
              /\ SubSeq(pages_text[m.page_num + 1], m.start + 1, m.end)
                   = m.ref_text
    /\ \A i \in 1..Len(all_superscripts) : \A j \in 1..Len(all_superscripts) :
          (i # j /\ all_superscripts[i].page_num = all_superscripts[j].page_num)
             => \/ all_superscripts[i].end <= all_superscripts[j].start
                \/ all_superscripts[j].end <= all_superscripts[i].start

\* the page just partitioned has one marker for each superscript numeral
\* span of its body lines and none for those of its footnote-region lines
OnlyBodyMarkers ==
    (pc = "lines" /\ line_idx = 1) =>
        Cardinality(MarkersOf(page_num))
          = CountSup(doc[page_num + 1].lines, 1, footnote_y_threshold, FALSE)

\* pages and markers already recorded stay as they are: the first pass only
\* adds those of the next page, the start of the substitution only sorts
\* the markers, and no other step touches either
MarkersStable ==
    /\ Len(pages_text') >= Len(pages_text)
    /\ SubSeq(pages_text', 1, Len(pages_text)) = pages_text
    /\ IF pc = "page"
       THEN /\ Len(all_superscripts') >= Len(all_superscripts)
            /\ SubSeq(all_superscripts', 1, Len(all_superscripts))
                 = all_superscripts
       ELSE IF pc = "resolve" /\ pc' = "replace"
       THEN /\ pages_text' = pages_text
            /\ Len(all_superscripts') = Len(all_superscripts)
            /\ {all_superscripts'[i] : i \in 1..Len(all_superscripts')}
                 = {all_superscripts[i] : i \in 1..Len(all_superscripts)}
       ELSE /\ pages_text' = pages_text
            /\ all_superscripts' = all_superscripts

\* C20: every marker recorded satisfies 0 <= start < end <= len(page body
\* text) and the text between start and end is its literal; the markers of
\* one page do not overlap; they come from body lines only, a superscript
\* numeral on a footnote-region line giving none; and no step between the
\* partition of a page and the substitution changes the page text or the
\* markers.
C20_MarkerValidity ==
    [][MarkersValid /\ MarkersValid' /\ OnlyBodyMarkers' /\ MarkersStable]_vars

\* a page has been partitioned that has markers in its body and a
\* superscript digit on a line of its footnote region
C20_Witness ==
    /\ pc = "lines" /\ line_idx = 1
    /\ Cardinality(MarkersOf(page_num)) >= 2
    /\ CountSup(doc[page_num + 1].lines, 1, footnote_y_threshold, TRUE) >= 1

----------------------------------------------------------------------------
(* C21: every line of the footnote regions ends in one entry               *)

\* the keys of the initiating lines of the regions
DocKeys(regions) ==
    UNION {{KeyOf(regions[q][i]) : i \in InitIdx(regions[q], Len(regions[q]))} :
              q \in 1..Len(regions)}

\* the number of lines in the segments of the initiating lines js
RECURSIVE SegmentLines(_, _)
SegmentLines(region, js) ==
    IF js = {} THEN 0
    ELSE LET j == SetMin(js)
         IN  SegmentEnd(region, Len(region), j) - j + 1
             + SegmentLines(region, js \ {j})

\* the lines of a region before its first initiating line
OrphanLines(region) ==
    LET I == InitIdx(region, Len(region))
    IN  SubSeq(region, 1, IF I = {} THEN Len(region) ELSE SetMin(I) - 1)

\* the orphan lines of the regions q..Len(regions), in document order
RECURSIVE AllOrphans(_, _)
AllOrphans(regions, q) ==
    IF q > Len(regions) THEN <<>>
    ELSE OrphanLines(regions[q]) \o AllOrphans(regions, q + 1)

\* " " + the stripped text of each of the orphans i..Len(conts), in order
RECURSIVE ResolvedTail(_, _)
ResolvedTail(conts, i) ==
    IF i > Len(conts) THEN <<>>
    ELSE <<" ">> \o Strip(conts[i].text) \o ResolvedTail(conts, i + 1)

\* the resolver has gone through every orphan
Resolved == pc = "resolve" /\ cont_idx > Len(footnote_continuations)

\* C21: when the resolver is through, the keys of the tables are the keys of
\* the initiating lines of the document (so the tables are empty only when
\* the document has no initiating line); every line of a footnote region is
\* an initiating line, a line of the segment of one initiating line of its
\* page, or one of the recorded orphans, and of one of these only; and when
\* the document has an initiating line, there is one entry such that every
\* entry is the merged segments of its key, followed, for that one entry
\* only, by each recorded orphan, stripped, after one space: no line is
\* missing from the tables and none is in two entries.
C21_TextConservation ==
    Resolved =>
        LET regions == Regions
            conts   == footnote_continuations
        IN  /\ TableKeys = DocKeys(regions)
            /\ [i \in 1..Len(conts) |-> conts[i].text] = AllOrphans(regions, 1)
            /\ \A q \in 1..Len(regions) :
                  Len(OrphanLines(regions[q]))
                  + SegmentLines(regions[q],
                                 InitIdx(regions[q], Len(regions[q])))
                  = Len(regions[q])
            /\ DocKeys(regions) # {} =>
                  \E t \in TableKeys :
                     \A k \in TableKeys :
                        TableText(k) =
                           MergedText(k, regions, 1)
                           \o (IF k = t THEN ResolvedTail(conts, 1) ELSE <<>>)

\* the resolver is through on a two-page document whose first page holds an
\* initiating line followed by a line without a numeral, and whose second
\* page begins with an orphan that was attached to an entry
C21_Witness ==
    /\ Resolved
    /\ Len(doc) = 2
    /\ Len(footnote_continuations) >= 1
    /\ footnote_continuations[1].page_num = 1
    /\ LET r == RegionOf(1)
       IN  /\ Len(r) >= 2
           /\ IsInitiating(r[1])
           /\ ~IsInitiating(r[2])
    /\ \E k \in TableKeys :
          Len(TableText(k)) > Len(MergedText(k, Regions, 1))

=============================================================================
